---- MODULE Spec2Model ----
(***************************************************************************)
(* Wednesday Addams Telegram bot (src/main.py): the mood scheduler, the   *)
(* user memory, the reply classifier, the four ConversationHandler games  *)
(* and the order in which the Application offers an update to them.       *)
(*                                                                         *)
(* A text is a sequence of one-character strings; a reply is a sequence   *)
(* whose elements are the literal passages of the source (one element     *)
(* each) and the characters of the texts substituted into them.           *)
(* Every user talks to the bot in one chat, so a conversation key         *)
(* (chat, user) is written as the user.                                   *)
(***************************************************************************)
EXTENDS Integers, Sequences, FiniteSets, TLC

VARIABLES
    conv,           \* per ConversationHandler: its _conversations dict, user -> state
    user_data,      \* context.user_data of each user: a dict key -> value
    users,          \* memory.users: user -> profile
    current_mood,   \* wednesday.current_mood
    mood_set_time,  \* wednesday.mood_set_time
    mood_read,      \* the last call of get_mood: what it returned and when
    now,            \* the clock read by time.time() and datetime.now()
    update,         \* the update processed last
    handler,        \* the callback that handled it
    reply,          \* the text sent back for it
    raised,         \* the exception its callback raised, handed to error_handler
    steps,          \* the updates processed so far
    chat_response,  \* what generate_response returned while the update was handled
    profile_comments \* the list comments get_profile_comment built meanwhile

vars == <<conv, user_data, users, current_mood, mood_set_time, mood_read, now,
          update, handler, reply, raised, steps>>

----------------------------------------------------------------------------
(* Bounds of the exploration *)

MaxUpdates == 3

MaxMessages == 2

MaxTime == 7202

\* the days the clock runs in the specification of the memory
MaxDays == 8

Users == {"u1", "u2"}

----------------------------------------------------------------------------
(* Python str operations used by the handlers *)

LowerLetters == <<"a", "b", "c", "d", "e", "f", "g", "h", "i", "j", "k", "l", "m", "n", "o", "p", "q", "r", "s", "t", "u", "v", "w", "x", "y", "z">>

UpperLetters == <<"A", "B", "C", "D", "E", "F", "G", "H", "I", "J", "K", "L", "M", "N", "O", "P", "Q", "R", "S", "T", "U", "V", "W", "X", "Y", "Z">>

Whitespace == {" "}

UpperChar(c) ==
    IF \E i \in 1..Len(LowerLetters) : LowerLetters[i] = c
    THEN UpperLetters[CHOOSE i \in 1..Len(LowerLetters) : LowerLetters[i] = c]
    ELSE c

LowerChar(c) ==
    IF \E i \in 1..Len(UpperLetters) : UpperLetters[i] = c
    THEN LowerLetters[CHOOSE i \in 1..Len(UpperLetters) : UpperLetters[i] = c]
    ELSE c

\* str.upper()
Upper(t) == [i \in 1..Len(t) |-> UpperChar(t[i])]

\* str.lower()
Lower(t) == [i \in 1..Len(t) |-> LowerChar(t[i])]

\* str.strip(): leading and trailing whitespace removed
Strip(t) ==
    LET inked == {i \in 1..Len(t) : t[i] \notin Whitespace}
    IN  IF inked = {} THEN <<>>
        ELSE LET first == CHOOSE i \in inked : \A j \in inked : i <= j
                 last  == CHOOSE i \in inked : \A j \in inked : j <= i
             IN  SubSeq(t, first, last)

\* needle in haystack, for str operands
Contains(haystack, needle) ==
    \E i \in 1..(Len(haystack) - Len(needle) + 1) :
        SubSeq(haystack, i, i + Len(needle) - 1) = needle

\* len(message.split()): the number of maximal runs of non-whitespace
WordCount(t) ==
    Cardinality({i \in 1..Len(t) :
        /\ t[i] \notin Whitespace
        /\ (i = 1 \/ t[i - 1] \in Whitespace)})

\* random.choice(corpus) for a corpus of n strings that differ in wording only:
\* a string is written as the corpus and its index, and the first and the last
\* stand for the n of them
Choice(corpus, n) == {<<corpus, ToString(i)>> : i \in {1, n}}

----------------------------------------------------------------------------
(* The texts users send *)

TxtA == <<"A">>
TxtB == <<"B">>
TxtC == <<"C">>
TxtD == <<"D">>
Txta == <<"a">>
Txtb == <<"b">>
Txtc == <<"c">>
Txtd == <<"d">>
TxtZ == <<"Z">>
TxtASpace == <<"A", " ">>
TxtAB == <<"A", "B">>
TxtCYANIDE == <<"C", "Y", "A", "N", "I", "D", "E">>
TxtRicinPadded == <<" ", "r", "i", "c", "i", "n", " ">>
TxtMyBoss == <<"m", "y", " ", "b", "o", "s", "s">>
TxtMyExPadded == <<" ", "m", "y", " ", "e", "x", " ">>
TxtLunch == <<"s", "t", "e", "a", "l", "i", "n", "g", " ", "m", "y", " ", "l", "u", "n", "c", "h">>
TxtLatePadded == <<" ", "b", "e", "i", "n", "g", " ", "l", "a", "t", "e", " ">>
TxtAcid == <<"u", "s", "e", " ", "a", "c", "i", "d">>
TxtDeath == <<"D", "e", "a", "t", "h">>

\* sent to hidebody_location: the four letters in both cases, and other texts
LocationTexts == {TxtA, TxtB, TxtC, TxtD, Txta, Txtb, Txtc, Txtd, TxtZ, TxtASpace, TxtAB}

\* sent to hidebody_method
MethodTexts == {TxtAcid, TxtZ}

\* sent to poison_answer
AnswerTexts == {TxtCYANIDE, TxtRicinPadded, Txtb}

\* sent to plotnovel_contribute
ContributionTexts == {TxtAcid, Txtb}

\* sent to curse_target
TargetTexts == {TxtMyBoss, TxtMyExPadded}

\* sent to curse_generate
ReasonTexts == {TxtLunch, TxtLatePadded}

\* sent outside the games, to handle_message
ChatTexts == {Txtb, TxtDeath}

----------------------------------------------------------------------------
(* Conversation states and the handlers' tables *)

HIDE_BODY_LOCATION == 1
HIDE_BODY_METHOD == 2
POISON_GAME == 4
NOVEL_PLOT == 5
CURSE_TARGET == 6
CURSE_REASON == 7

\* ConversationHandler.END
END == -1

NoHandler == "none"

NoReply == <<>>

SimpleCommands == {"start", "help", "profile", "darkfact", "mood", "game", "goodbye"}

\* the four ConversationHandlers added in the opposite order
KindOrderReversed == <<"curse", "plotnovel", "poison", "hidebody">>

\* application.add_handler order of the four ConversationHandlers
KindOrder == <<"hidebody", "poison", "plotnovel", "curse">>

Kinds == {KindOrder[i] : i \in 1..Len(KindOrder)}

\* entry_points of each ConversationHandler: the command is the kind's name
EntryCallback ==
    [hidebody |-> "hidebody_start", poison |-> "poison_game",
     plotnovel |-> "plotnovel_start", curse |-> "curse_start"]

\* states of each ConversationHandler: state -> callback of its text handler
StateCallbacks ==
    [hidebody  |-> (HIDE_BODY_LOCATION :> "hidebody_location")
                   @@ (HIDE_BODY_METHOD :> "hidebody_method"),
     poison    |-> (POISON_GAME :> "poison_answer"),
     plotnovel |-> (NOVEL_PLOT :> "plotnovel_contribute"),
     curse     |-> (CURSE_TARGET :> "curse_target")
                   @@ (CURSE_REASON :> "curse_generate")]

InitialState ==
    [hidebody |-> HIDE_BODY_LOCATION, poison |-> POISON_GAME,
     plotnovel |-> NOVEL_PLOT, curse |-> CURSE_TARGET]

CommandUpdate(u, c) == [user |-> u, type |-> "command", cmd |-> c, text |-> <<>>]

TextUpdate(u, t) == [user |-> u, type |-> "text", cmd |-> "", text |-> t]

PhotoUpdate(u) == [user |-> u, type |-> "photo", cmd |-> "", text |-> <<>>]

\* a user's conversation with one ConversationHandler is active
Active(k, u) == u \in DOMAIN conv[k]

ActiveKinds(u) == {k \in Kinds : Active(k, u)}

\* a ConversationHandler built with allow_reentry=True: entry points are
\* consulted in an active conversation too
ConvCheckReentry(k, upd) ==
    IF upd.type = "command" /\ upd.cmd = k THEN EntryCallback[k]
    ELSE IF ~Active(k, upd.user) THEN NoHandler
    ELSE IF upd.type = "text" /\ conv[k][upd.user] \in DOMAIN StateCallbacks[k]
         THEN StateCallbacks[k][conv[k][upd.user]]
         ELSE IF upd.type = "command" /\ upd.cmd = "cancel"
              THEN "cancel_conversation"
              ELSE NoHandler

\* ConversationHandler.check_update (allow_reentry is left False): without a
\* conversation only the entry point is tried; within one, the state's text
\* handler, then the fallback /cancel; anything else is not this handler's.
ConvCheck(k, upd) ==
    IF ~Active(k, upd.user)
    THEN IF upd.type = "command" /\ upd.cmd = k THEN EntryCallback[k] ELSE NoHandler
    ELSE IF upd.type = "text" /\ conv[k][upd.user] \in DOMAIN StateCallbacks[k]
         THEN StateCallbacks[k][conv[k][upd.user]]
         ELSE IF upd.type = "command" /\ upd.cmd = "cancel"
              THEN "cancel_conversation"
              ELSE NoHandler

\* a dispatch in which the text MessageHandler was added before the games
RouteChatFirst(upd) ==
    IF upd.type = "command" /\ upd.cmd \in SimpleCommands
    THEN [kind |-> "app", callback |-> upd.cmd \o "_command"]
    ELSE IF upd.type = "text" THEN [kind |-> "app", callback |-> "handle_message"]
    ELSE IF \E i \in 1..Len(KindOrder) : ConvCheck(KindOrder[i], upd) # NoHandler
         THEN LET i == CHOOSE n \in 1..Len(KindOrder) :
                          /\ ConvCheck(KindOrder[n], upd) # NoHandler
                          /\ \A j \in 1..(n - 1) : ConvCheck(KindOrder[j], upd) = NoHandler
              IN  [kind |-> KindOrder[i], callback |-> ConvCheck(KindOrder[i], upd)]
         ELSE IF upd.type = "photo" THEN [kind |-> "app", callback |-> "handle_photo"]
         ELSE [kind |-> "app", callback |-> NoHandler]

\* Application.process_update: the handlers of the one group are tried in the
\* order they were added and the first that accepts the update handles it.
Route(upd) ==
    IF upd.type = "command" /\ upd.cmd \in SimpleCommands
    THEN [kind |-> "app", callback |-> upd.cmd \o "_command"]
    ELSE IF \E i \in 1..Len(KindOrder) : ConvCheck(KindOrder[i], upd) # NoHandler
         THEN LET i == CHOOSE n \in 1..Len(KindOrder) :
                          /\ ConvCheck(KindOrder[n], upd) # NoHandler
                          /\ \A j \in 1..(n - 1) : ConvCheck(KindOrder[j], upd) = NoHandler
              IN  [kind |-> KindOrder[i], callback |-> ConvCheck(KindOrder[i], upd)]
         ELSE IF upd.type = "photo" THEN [kind |-> "app", callback |-> "handle_photo"]
         ELSE IF upd.type = "text" THEN [kind |-> "app", callback |-> "handle_message"]
         ELSE [kind |-> "app", callback |-> NoHandler]

\* _update_state with conversations keyed by the handler alone, not by the user:
\* END removes every conversation of the handler
UpdateStateOfAll(k, u, new_state) ==
    IF new_state = END
    THEN [conv EXCEPT ![k] = <<>>]
    ELSE [conv EXCEPT ![k] = [x \in (DOMAIN conv[k]) \cup {u} |->
                                 IF x = u THEN new_state ELSE conv[k][x]]]

\* ConversationHandler._update_state with the callback's return value
UpdateState(k, u, new_state) ==
    IF new_state = END
    THEN [conv EXCEPT ![k] = [x \in (DOMAIN conv[k]) \ {u} |-> conv[k][x]]]
    ELSE [conv EXCEPT ![k] = [x \in (DOMAIN conv[k]) \cup {u} |->
                                 IF x = u THEN new_state ELSE conv[k][x]]]

\* dict.get(key, default) and dict[key] = value on context.user_data
Get(d, key, default) == IF key \in DOMAIN d THEN d[key] ELSE default

Put(d, key, value) == [x \in (DOMAIN d) \cup {key} |-> IF x = key THEN value ELSE d[x]]

\* what every callback leaves behind: the update, who handled it, the reply
NoException == "none"

Answered(upd, callback, text) ==
    /\ update' = upd
    /\ handler' = callback
    /\ reply' = text
    /\ raised' = NoException
    /\ steps' = steps + 1

\* a callback that calls neither generate_response nor get_profile_comment
Handled(upd, callback, text) ==
    /\ Answered(upd, callback, text)
    /\ chat_response' = NoReply
    /\ profile_comments' = <<>>

ErrorText == <<"An error occurred. Even I, with my superior intellect, cannot predict all forms of digital chaos. Try again.">>

\* a callback that raises: Application.process_error runs error_handler,
\* which answers the update with the error text
error_handler(upd, callback, exception) ==
    /\ update' = upd
    /\ handler' = callback
    /\ reply' = ErrorText
    /\ raised' = exception
    /\ steps' = steps + 1
    /\ chat_response' = NoReply
    /\ profile_comments' = <<>>

----------------------------------------------------------------------------
(* WednesdayGames: the corpora of the games *)

NameArsenic == <<"A", "r", "s", "e", "n", "i", "c">>
NameCyanide == <<"C", "y", "a", "n", "i", "d", "e">>
NameRicin == <<"R", "i", "c", "i", "n">>
NameHemlock == <<"H", "e", "m", "l", "o", "c", "k">>
NameStrychnine == <<"S", "t", "r", "y", "c", "h", "n", "i", "n", "e">>

\* poison_game_question: the list poisons
Poisons ==
    << [name |-> NameArsenic,
        symptoms |-> "Garlic breath, severe stomach pain, bloody diarrhea, dehydration",
        trivia |-> "Known as inheritance powder in Renaissance Italy"],
       [name |-> NameCyanide,
        symptoms |-> "Bitter almond smell, seizures, loss of consciousness, cherry-red skin",
        trivia |-> "Blocks cellular respiration. Death in minutes"],
       [name |-> NameRicin,
        symptoms |-> "Severe vomiting, internal bleeding, organ failure over days",
        trivia |-> "Derived from castor beans. Just 1 milligram is fatal"],
       [name |-> NameHemlock,
        symptoms |-> "Ascending paralysis starting from legs, respiratory failure",
        trivia |-> "Killed Socrates. At least he died doing philosophy"],
       [name |-> NameStrychnine,
        symptoms |-> "Violent muscle spasms, arched back, facial distortion",
        trivia |-> "Victim remains conscious throughout. Quite theatrical"] >>

\* poison_game_question() with random.choice picking the i-th specimen
\* poison_game_question giving the symptoms of one poison with the name and the
\* trivia of the next
poison_game_question_shifted(i) ==
    [symptoms |-> Poisons[i].symptoms,
     answer |-> Poisons[(i % Len(Poisons)) + 1].name,
     trivia |-> Poisons[(i % Len(Poisons)) + 1].trivia]

poison_game_question(i) ==
    [symptoms |-> Poisons[i].symptoms, answer |-> Poisons[i].name,
     trivia |-> Poisons[i].trivia]

\* curse_generator: the list curse_templates, each template as the passages
\* before {target}, between {target} and {reason}, and after {reason}
curse_templates ==
    << <<"May ",
         "'s coffee always be lukewarm and their Wi-Fi perpetually buffer during crucial moments. ",
         " demands no less.">>,
       <<"I curse ",
         " to forever find single socks, never pairs. Their laundry shall know only chaos because ",
         ".">>,
       <<"Upon ",
         ", I bestow the curse of eternal autocorrect fails and phantom phone vibrations. ",
         " has earned this.">>,
       <<"May ",
         "'s pillow always be warm on both sides, and may they stub their toe weekly. For ",
         ", this is fitting.">>,
       <<"I hex ",
         " with the curse of being forever interrupted mid-sentence and having their favorite shows canceled. ",
         " justifies this hex.">> >>

\* curse_generator with the two substitutions exchanged
curse_generator_swapped(i, target, reason) ==
    <<curse_templates[i][1]>> \o reason \o <<curse_templates[i][2]>> \o target
        \o <<curse_templates[i][3]>>

\* curse_generator(target, reason) with random.choice picking the i-th template
curse_generator(i, target, reason) ==
    <<curse_templates[i][1]>> \o target \o <<curse_templates[i][2]>> \o reason
        \o <<curse_templates[i][3]>>

\* hidebody_location: the dict responses
LocationResponses ==
    (<<"A">> :> "Backyard burial. Pedestrian but effective.")
    @@ (<<"B">> :> "Acid dissolution. *nods approvingly*")
    @@ (<<"C">> :> "Wood chipper. Theatrical but messy.")
    @@ (<<"D">> :> "Frame someone else. *slow clap*")

\* hidebody_method: the assessments random.choice draws from
NumMethodAssessments == 4

\* plotnovel_contribute: the list assessments
NumNovelAssessments == 6

InvalidChoiceText == <<"Invalid choice. Even hypothetical crimes require following instructions.">>

CancelText == <<"Conversation terminated. Return when you're ready to take this seriously.">>

ScenarioText ==
    [hidebody  |-> <<"**HIDE A BODY: SCENARIO INITIATED**">>,
     poison    |-> <<"**NAME THAT POISON**">>,
     plotnovel |-> <<"**COLLABORATIVE FICTION: INITIATED**">>,
     curse     |-> <<"**CURSE GENERATOR: ACTIVATED**">>]

DefaultCurseTarget == <<"t", "h", "e", " ", "t", "a", "r", "g", "e", "t">>

----------------------------------------------------------------------------
(* The callbacks of the games *)

\* the choice taken as typed, without upper()
LocationChoiceAsTyped(t) == t

\* hidebody_location: choice = update.message.text.upper()
LocationChoice(t) == Upper(t)

\* an else branch that stays in the Location state
AfterInvalidChoiceRetry == HIDE_BODY_LOCATION

\* hidebody_location: what the else branch returns
AfterInvalidChoice == END

\* a comparison without lower()
AnswerMatchesExactly(user_answer, correct_answer) == user_answer = correct_answer

\* poison_answer: user_answer.lower() == correct_answer.lower()
AnswerMatches(user_answer, correct_answer) == Lower(user_answer) = Lower(correct_answer)

hidebody_start(u) ==
    LET upd == CommandUpdate(u, "hidebody") IN
    /\ steps < MaxUpdates
    /\ Route(upd) = [kind |-> "hidebody", callback |-> "hidebody_start"]
    /\ Handled(upd, "hidebody_start", ScenarioText.hidebody)
    /\ conv' = UpdateState("hidebody", u, HIDE_BODY_LOCATION)
    /\ UNCHANGED <<user_data, users, current_mood, mood_set_time, mood_read, now>>

hidebody_location(u, t) ==
    LET upd == TextUpdate(u, t)
        choice == LocationChoice(t)
    IN
    /\ steps < MaxUpdates
    /\ Route(upd) = [kind |-> "hidebody", callback |-> "hidebody_location"]
    /\ IF choice \in DOMAIN LocationResponses
       THEN /\ Handled(upd, "hidebody_location",
                       <<LocationResponses[choice], "**WHAT ABOUT THE EVIDENCE?**">>)
            /\ conv' = UpdateState("hidebody", u, HIDE_BODY_METHOD)
       ELSE /\ Handled(upd, "hidebody_location", InvalidChoiceText)
            /\ conv' = UpdateState("hidebody", u, AfterInvalidChoice)
    /\ UNCHANGED <<user_data, users, current_mood, mood_set_time, mood_read, now>>

hidebody_method(u, t) ==
    LET upd == TextUpdate(u, t) IN
    /\ steps < MaxUpdates
    /\ Route(upd) = [kind |-> "hidebody", callback |-> "hidebody_method"]
    /\ \E assessment \in Choice("hidebody_method", NumMethodAssessments) :
          Handled(upd, "hidebody_method",
                  <<"**YOUR PLAN:**">> \o t
                    \o <<"**WEDNESDAY'S ASSESSMENT:**">> \o assessment
                    \o <<"**LESSON LEARNED:**">>)
    /\ conv' = UpdateState("hidebody", u, END)
    /\ UNCHANGED <<user_data, users, current_mood, mood_set_time, mood_read, now>>

poison_game(u) ==
    LET upd == CommandUpdate(u, "poison") IN
    /\ steps < MaxUpdates
    /\ Route(upd) = [kind |-> "poison", callback |-> "poison_game"]
    /\ \E i \in 1..Len(Poisons) :
          LET question == poison_game_question(i) IN
          /\ user_data' = [user_data EXCEPT ![u] =
                 Put(Put(@, "poison_answer", question.answer),
                     "poison_trivia", <<question.trivia>>)]
          /\ Handled(upd, "poison_game",
                     ScenarioText.poison
                       \o <<question.symptoms, "**WHAT POISON WAS USED?**">>)
    /\ conv' = UpdateState("poison", u, POISON_GAME)
    /\ UNCHANGED <<users, current_mood, mood_set_time, mood_read, now>>

poison_answer(u, t) ==
    LET upd == TextUpdate(u, t)
        user_answer == Strip(t)
        correct_answer == Get(user_data[u], "poison_answer", <<>>)
        trivia == Get(user_data[u], "poison_trivia", <<>>)
    IN
    /\ steps < MaxUpdates
    /\ Route(upd) = [kind |-> "poison", callback |-> "poison_answer"]
    /\ IF AnswerMatches(user_answer, correct_answer)
       THEN Handled(upd, "poison_answer",
                    <<"**CORRECT.**", "The answer was indeed ">>
                      \o correct_answer \o <<". ">> \o trivia)
       ELSE Handled(upd, "poison_answer",
                    <<"**INCORRECT.**", "The answer was ">>
                      \o correct_answer \o <<". ">> \o trivia)
    /\ conv' = UpdateState("poison", u, END)
    /\ UNCHANGED <<user_data, users, current_mood, mood_set_time, mood_read, now>>

plotnovel_start(u) ==
    LET upd == CommandUpdate(u, "plotnovel") IN
    /\ steps < MaxUpdates
    /\ Route(upd) = [kind |-> "plotnovel", callback |-> "plotnovel_start"]
    /\ Handled(upd, "plotnovel_start", ScenarioText.plotnovel)
    /\ conv' = UpdateState("plotnovel", u, NOVEL_PLOT)
    /\ UNCHANGED <<user_data, users, current_mood, mood_set_time, mood_read, now>>

plotnovel_contribute(u, t) ==
    LET upd == TextUpdate(u, t) IN
    /\ steps < MaxUpdates
    /\ Route(upd) = [kind |-> "plotnovel", callback |-> "plotnovel_contribute"]
    /\ \E assessment \in Choice("assessments", NumNovelAssessments) :
          Handled(upd, "plotnovel_contribute",
                  <<"**ASSESSMENT:**">> \o assessment \o <<"**MY ADDITION:**">>)
    /\ conv' = UpdateState("plotnovel", u, END)
    /\ UNCHANGED <<user_data, users, current_mood, mood_set_time, mood_read, now>>

curse_start(u) ==
    LET upd == CommandUpdate(u, "curse") IN
    /\ steps < MaxUpdates
    /\ Route(upd) = [kind |-> "curse", callback |-> "curse_start"]
    /\ Handled(upd, "curse_start", ScenarioText.curse)
    /\ conv' = UpdateState("curse", u, CURSE_TARGET)
    /\ UNCHANGED <<user_data, users, current_mood, mood_set_time, mood_read, now>>

curse_target(u, t) ==
    LET upd == TextUpdate(u, t)
        target == Strip(t)
    IN
    /\ steps < MaxUpdates
    /\ Route(upd) = [kind |-> "curse", callback |-> "curse_target"]
    /\ user_data' = [user_data EXCEPT ![u] = Put(@, "curse_target", target)]
    /\ Handled(upd, "curse_target",
               <<"**TARGET IDENTIFIED:** ">> \o target
                 \o <<"**WHAT DID THEY DO TO DESERVE THIS CURSE?**">>)
    /\ conv' = UpdateState("curse", u, CURSE_REASON)
    /\ UNCHANGED <<users, current_mood, mood_set_time, mood_read, now>>

curse_generate(u, t) ==
    LET upd == TextUpdate(u, t)
        target == Get(user_data[u], "curse_target", DefaultCurseTarget)
        reason == Strip(t)
    IN
    /\ steps < MaxUpdates
    /\ Route(upd) = [kind |-> "curse", callback |-> "curse_generate"]
    /\ \E i \in 1..Len(curse_templates) :
          Handled(upd, "curse_generate",
                  <<"**CURSE GENERATED**", "**Target:** ">> \o target
                    \o <<"**Transgression:** ">> \o reason
                    \o <<"**THE HEX:**">> \o curse_generator(i, target, reason))
    /\ conv' = UpdateState("curse", u, END)
    /\ UNCHANGED <<user_data, users, current_mood, mood_set_time, mood_read, now>>

\* the fallback /cancel of the first ConversationHandler holding a conversation
cancel_conversation(u) ==
    LET upd == CommandUpdate(u, "cancel")
        r == Route(upd)
    IN
    /\ steps < MaxUpdates
    /\ r.callback = "cancel_conversation"
    /\ Handled(upd, "cancel_conversation", CancelText)
    /\ conv' = UpdateState(r.kind, u, END)
    /\ UNCHANGED <<user_data, users, current_mood, mood_set_time, mood_read, now>>

\* an update no handler accepts is dropped: nothing runs and nothing is sent
Unhandled(u, c) ==
    LET upd == CommandUpdate(u, c) IN
    /\ steps < MaxUpdates
    /\ Route(upd).callback = NoHandler
    /\ Handled(upd, NoHandler, NoReply)
    /\ UNCHANGED <<conv, user_data, users, current_mood, mood_set_time, mood_read, now>>

----------------------------------------------------------------------------
(* Python values whose type decides a comparison: a str and a list *)

Str(s) == [str |-> s]

List(xs) == [list |-> xs]

\* a == b: values of different types are unequal
PyEq(a, b) == DOMAIN a = DOMAIN b /\ a = b

\* a list cannot be a dict key: the lookup raises TypeError
Hashable(v) == DOMAIN v = {"str"}

----------------------------------------------------------------------------
(* The keyword lists *)

KwDeath == <<"d", "e", "a", "t", "h">>
KwMurder == <<"m", "u", "r", "d", "e", "r">>
KwDark == <<"d", "a", "r", "k">>
KwPoison == <<"p", "o", "i", "s", "o", "n">>
KwGothic == <<"g", "o", "t", "h", "i", "c">>
KwTorture == <<"t", "o", "r", "t", "u", "r", "e">>
KwCemetery == <<"c", "e", "m", "e", "t", "e", "r", "y">>
KwKill == <<"k", "i", "l", "l">>
KwHi == <<"h", "i">>
KwHello == <<"h", "e", "l", "l", "o">>
KwHey == <<"h", "e", "y">>
KwGoodMorning == <<"g", "o", "o", "d", " ", "m", "o", "r", "n", "i", "n", "g">>
KwGoodEvening == <<"g", "o", "o", "d", " ", "e", "v", "e", "n", "i", "n", "g">>
KwHappy == <<"h", "a", "p", "p", "y">>
KwExcited == <<"e", "x", "c", "i", "t", "e", "d">>
KwLove == <<"l", "o", "v", "e">>
KwAmazing == <<"a", "m", "a", "z", "i", "n", "g">>
KwAwesome == <<"a", "w", "e", "s", "o", "m", "e">>
KwHowAreYou == <<"h", "o", "w", " ", "a", "r", "e", " ", "y", "o", "u">>
KwWhatsUp == <<"w", "h", "a", "t", "'", "s", " ", "u", "p">>
KwWassup == <<"w", "a", "s", "s", "u", "p">>
KwBeautiful == <<"b", "e", "a", "u", "t", "i", "f", "u", "l">>
KwPretty == <<"p", "r", "e", "t", "t", "y">>
KwNice == <<"n", "i", "c", "e">>
KwKind == <<"k", "i", "n", "d">>
KwSweet == <<"s", "w", "e", "e", "t">>

GreetingWords == <<KwHi, KwHello, KwHey, KwGoodMorning, KwGoodEvening>>

CheerfulWords == <<KwHappy, KwExcited, KwLove, KwAmazing, KwAwesome>>

DarkTopicWords == <<KwDeath, KwMurder, KwDark, KwGothic, KwPoison, KwKill>>

SmallTalkWords == <<KwHowAreYou, KwWhatsUp, KwWassup>>

ComplimentWords == <<KwBeautiful, KwPretty, KwNice, KwKind, KwSweet>>

\* record_interaction: the list dark_keywords
dark_keywords == <<KwDeath, KwMurder, KwDark, KwPoison, KwGothic, KwTorture, KwCemetery>>

\* any(word in message for word in words)
AnyIn(words, message) == \E i \in 1..Len(words) : Contains(message, words[i])

----------------------------------------------------------------------------
(* WednesdayPersonality: the mood *)

MOOD_STATES == <<"plotting", "literary", "scientific", "philosophical", "vulnerable">>

\* the moods random.choices can draw: every weight of MOOD_WEIGHTS is positive
Moods == {MOOD_STATES[i] : i \in 1..Len(MOOD_STATES)}

\* random.choices(MOOD_STATES, weights) returns a list of one element
Drawn(m) == List(<<m>>)

MoodLifetime == 3600

\* a staleness test with >= in place of >
MoodStaleAtLifetime == now - mood_set_time >= MoodLifetime

\* get_mood: the test that the mood is stale
MoodStale == now - mood_set_time > MoodLifetime

\* before the first call of get_mood
NeverRead == [value |-> List(<<>>), at |-> -1]

\* get_mood without the assignment to mood_set_time
get_mood_keeps_time ==
    IF MoodStale
    THEN {[current_mood |-> Drawn(m), mood_set_time |-> mood_set_time] : m \in Moods}
    ELSE {[current_mood |-> current_mood, mood_set_time |-> mood_set_time]}

\* get_mood drawing on every call, the time set by the stale call only
get_mood_drawing_always ==
    {[current_mood |-> Drawn(m),
      mood_set_time |-> IF MoodStale THEN now ELSE mood_set_time] : m \in Moods}

\* get_mood: the attributes it can leave behind; current_mood is what it returns
get_mood ==
    IF MoodStale
    THEN {[current_mood |-> Drawn(m), mood_set_time |-> now] : m \in Moods}
    ELSE {[current_mood |-> current_mood, mood_set_time |-> mood_set_time]}

----------------------------------------------------------------------------
(* WednesdayPersonality: the corpora and the reply classifier *)

NumDarkFacts == 8

NumOpeningLines == 5

NumBoredResponses == 7

NumGoodbyeResponses == 5

NumCategoryResponses == 4

NumPhotoAnalyses == 5

DARK_FACTS == Choice("DARK_FACTS", NumDarkFacts)

OPENING_LINES == Choice("OPENING_LINES", NumOpeningLines)

BORED_RESPONSES == Choice("BORED_RESPONSES", NumBoredResponses)

GOODBYE_RESPONSES == Choice("GOODBYE_RESPONSES", NumGoodbyeResponses)

_handle_greeting(user_name, mood) ==
    {IF PyEq(mood, Str("plotting"))
     THEN base \o <<" I'm in the middle of orchestrating someone's social demise.">>
     ELSE IF PyEq(mood, Str("literary"))
     THEN base \o <<" I was writing Chapter 47 of my novel.">>
     ELSE IF PyEq(mood, Str("scientific"))
     THEN base \o <<" I'm calculating the optimal angle for a guillotine blade. Efficiency matters, ",
                    user_name, ".">>
     ELSE base
     : base \in OPENING_LINES}

_handle_cheerful_message == Choice("cheerful", NumCategoryResponses)

_handle_dark_topic(message, mood) ==
    {response \o fact
       \o (IF PyEq(mood, Str("philosophical"))
           THEN <<"Death is merely the universe's way of correcting an accounting error.">>
           ELSE <<>>)
     : response \in Choice("dark_topic", NumCategoryResponses),
       fact \in IF Contains(message, KwDeath) THEN DARK_FACTS ELSE {<<>>}}

_handle_small_talk(mood) ==
    {response
       \o (IF PyEq(mood, Str("vulnerable"))
           THEN <<" Though I suppose your inquiry demonstrates some minimal concern.">>
           ELSE <<>>)
     : response \in Choice("small_talk", NumCategoryResponses)}

_handle_compliment == Choice("compliment", NumCategoryResponses)

MinWordsForMoodReply == 5

_default_response(mood, message) ==
    IF WordCount(message) < MinWordsForMoodReply
    THEN BORED_RESPONSES
    ELSE IF PyEq(mood, Str("plotting"))
    THEN {<<"Interesting. I'm incorporating this into my master plan.">>}
    ELSE IF PyEq(mood, Str("literary"))
    THEN {<<"Your message reminds me of a line from Poe.">>}
    ELSE IF PyEq(mood, Str("scientific"))
    THEN {<<"I'm conducting an experiment on human communication patterns.">>}
    ELSE IF PyEq(mood, Str("philosophical"))
    THEN {<<"We're all just temporary arrangements of atoms.">>}
    ELSE {<<"I'm processing your words with approximately 23% of my attention.">>}

\* generate_response with the dark-topic test moved in front of the greeting test
generate_response_dark_first(message, user_name, mood) ==
    LET message_lower == Lower(message) IN
    IF AnyIn(DarkTopicWords, message_lower) THEN _handle_dark_topic(message_lower, mood)
    ELSE IF AnyIn(GreetingWords, message_lower) THEN _handle_greeting(user_name, mood)
    ELSE IF AnyIn(CheerfulWords, message_lower) THEN _handle_cheerful_message
    ELSE IF AnyIn(SmallTalkWords, message_lower) THEN _handle_small_talk(mood)
    ELSE IF AnyIn(ComplimentWords, message_lower) THEN _handle_compliment
    ELSE _default_response(mood, message)

\* generate_response once get_mood has returned mood: the replies it can give
generate_response(message, user_name, mood) ==
    LET message_lower == Lower(message) IN
    IF AnyIn(GreetingWords, message_lower) THEN _handle_greeting(user_name, mood)
    ELSE IF AnyIn(CheerfulWords, message_lower) THEN _handle_cheerful_message
    ELSE IF AnyIn(DarkTopicWords, message_lower) THEN _handle_dark_topic(message_lower, mood)
    ELSE IF AnyIn(SmallTalkWords, message_lower) THEN _handle_small_talk(mood)
    ELSE IF AnyIn(ComplimentWords, message_lower) THEN _handle_compliment
    ELSE _default_response(mood, message)

----------------------------------------------------------------------------
(* UserMemory *)

SecondsPerDay == 86400

AbsenceDays == 7

PersistenceCount == 10

\* user.first_name or "Human"
FirstName(u) == u

\* the loop without the test that the keyword is not yet in the list
TrackDarkInterestsUnchecked(interests, message_lower, i) ==
    LET Hit(keyword) == Contains(message_lower, keyword) IN
    interests \o SelectSeq(SubSeq(dark_keywords, i, Len(dark_keywords)), Hit)

\* the loop over dark_keywords from the i-th keyword on
RECURSIVE TrackDarkInterests(_, _, _)
TrackDarkInterests(interests, message_lower, i) ==
    IF i > Len(dark_keywords) THEN interests
    ELSE LET keyword == dark_keywords[i]
             seen == \E j \in 1..Len(interests) : interests[j] = keyword
         IN  TrackDarkInterests(
                 IF Contains(message_lower, keyword) /\ ~seen
                 THEN Append(interests, keyword) ELSE interests,
                 message_lower, i + 1)

NewProfile(username) ==
    [name |-> username, first_contact |-> now, message_count |-> 0,
     dark_interests |-> <<>>, last_interaction |-> now, grudges |-> <<>>]

\* record_interaction writing a new profile on every call, without the test
\* that the user is not yet in memory.users
record_interaction_recreating(user_id, message, username) ==
    LET after == [NewProfile(username) EXCEPT
                    !.message_count = @ + 1,
                    !.last_interaction = now,
                    !.dark_interests = TrackDarkInterests(@, Lower(message), 1)]
    IN  [x \in (DOMAIN users) \cup {user_id} |-> IF x = user_id THEN after ELSE users[x]]

\* memory.record_interaction(user_id, message, username): memory.users afterwards
record_interaction(user_id, message, username) ==
    LET before == IF user_id \in DOMAIN users THEN users[user_id] ELSE NewProfile(username)
        after == [before EXCEPT
                    !.message_count = @ + 1,
                    !.last_interaction = now,
                    !.dark_interests = TrackDarkInterests(@, Lower(message), 1)]
    IN  [x \in (DOMAIN users) \cup {user_id} |-> IF x = user_id THEN after ELSE users[x]]

\* ', '.join(words)
RECURSIVE Join(_)
Join(words) ==
    IF words = <<>> THEN <<>>
    ELSE IF Len(words) = 1 THEN words[1]
    ELSE words[1] \o <<", ">> \o Join(Tail(words))

\* the list comments with the count compared the wrong way round
ProfileCommentsCountBelow(us, user_id) ==
    IF user_id \notin DOMAIN us THEN <<>>
    ELSE LET user == us[user_id]
             days == (now - user.last_interaction) \div SecondsPerDay
         IN  (IF user.message_count < PersistenceCount
              THEN << <<"You've contacted me ", ToString(user.message_count), " times.">> >>
              ELSE <<>>)
             \o (IF user.dark_interests # <<>>
                 THEN << <<"I've noted your interests in: ">> \o Join(user.dark_interests)
                           \o <<". Your psychological profile is becoming... less boring.">> >>
                 ELSE <<>>)
             \o (IF days > AbsenceDays
                 THEN << <<"You've been absent for ", ToString(days), " days.">> >>
                 ELSE <<>>)

\* get_profile_comment on the store us: the list comments
ProfileComments(us, user_id) ==
    IF user_id \notin DOMAIN us THEN <<>>
    ELSE LET user == us[user_id]
             days == (now - user.last_interaction) \div SecondsPerDay
         IN  (IF user.message_count > PersistenceCount
              THEN << <<"You've contacted me ", ToString(user.message_count), " times.">> >>
              ELSE <<>>)
             \o (IF user.dark_interests # <<>>
                 THEN << <<"I've noted your interests in: ">> \o Join(user.dark_interests)
                           \o <<". Your psychological profile is becoming... less boring.">> >>
                 ELSE <<>>)
             \o (IF days > AbsenceDays
                 THEN << <<"You've been absent for ", ToString(days), " days.">> >>
                 ELSE <<>>)

\* None
NoComment == <<>>

\* get_profile_comment on the store us: the values it can return
get_profile_comment(us, user_id) ==
    LET comments == ProfileComments(us, user_id) IN
    IF comments = <<>> THEN {NoComment}
    ELSE {comments[i] : i \in 1..Len(comments)}

\* message_count of a user, 0 before the first record
Count(u) == IF u \in DOMAIN users THEN users[u].message_count ELSE 0

\* the interactions recorded so far, over all users
RECURSIVE Total(_)
Total(S) == IF S = {} THEN 0 ELSE LET u == CHOOSE x \in S : TRUE IN Count(u) + Total(S \ {u})

----------------------------------------------------------------------------
(* The callbacks outside the games *)

MoodDescriptions ==
    [plotting |-> "I'm currently in Plotting Mode.",
     literary |-> "I'm in Literary Mode.",
     scientific |-> "I'm in Scientific Mode.",
     philosophical |-> "I'm in Philosophical Mode.",
     vulnerable |-> "I'm in... a state I don't recognize."]

\* handle_message: what random.random() < 0.15 can append, nothing when the
\* draw fails or get_profile_comment returns None
\* the comment appended without the test "if profile_comment"
CommentAsidesUntested(us, user_id) ==
    {<<>>} \cup {<<"*">> \o profile_comment \o <<"*">> :
                    profile_comment \in get_profile_comment(us, user_id)}

CommentAsides(us, user_id) ==
    {<<>>} \cup {<<"*">> \o profile_comment \o <<"*">> :
                    profile_comment \in get_profile_comment(us, user_id) \ {NoComment}}

\* handle_message: what random.random() < 0.1 can append
FactAsides == {<<>>} \cup DARK_FACTS

\* handle_message: the non-command text no conversation took
handle_message(u, t) ==
    LET upd == TextUpdate(u, t)
        recorded == record_interaction(u, t, FirstName(u))
    IN
    /\ steps < MaxUpdates
    /\ Route(upd) = [kind |-> "app", callback |-> "handle_message"]
    /\ Total(Users) < MaxMessages
    /\ users' = recorded
    \* get_profile_comment runs after record_interaction: the comments it has to
    \* choose from, should random.random() < 0.15 call it
    /\ profile_comments' = ProfileComments(recorded, u)
    /\ UNCHANGED <<conv, user_data, now>>
    /\ \E read \in get_mood :
          /\ current_mood' = read.current_mood
          /\ mood_set_time' = read.mood_set_time
          /\ mood_read' = [value |-> read.current_mood, at |-> now]
          /\ \E response \in generate_response(t, FirstName(u), read.current_mood),
                comment \in CommentAsides(recorded, u),
                fact \in FactAsides :
                /\ chat_response' = response
                /\ Answered(upd, "handle_message", response \o comment \o fact)

mood_command(u) ==
    LET upd == CommandUpdate(u, "mood") IN
    /\ steps < MaxUpdates
    /\ Route(upd) = [kind |-> "app", callback |-> "mood_command"]
    /\ \E read \in get_mood :
          /\ current_mood' = read.current_mood
          /\ mood_set_time' = read.mood_set_time
          /\ mood_read' = [value |-> read.current_mood, at |-> now]
          /\ LET mood == read.current_mood IN
             IF Hashable(mood)
             THEN Handled(upd, "mood_command",
                          <<"**CURRENT MOOD STATE:**", MoodDescriptions[mood.str]>>)
             ELSE error_handler(upd, "mood_command", "TypeError")
    /\ UNCHANGED <<conv, user_data, users, now>>

\* a profile_command that records the command as an interaction
profile_command_recording(u) ==
    LET upd == CommandUpdate(u, "profile")
        recorded == record_interaction(u, <<>>, FirstName(u))
    IN
    /\ steps < MaxUpdates
    /\ Route(upd) = [kind |-> "app", callback |-> "profile_command"]
    /\ users' = recorded
    /\ \E profile_comment \in get_profile_comment(recorded, u) :
          Answered(upd, "profile_command",
                   <<"**PSYCHOLOGICAL PROFILE ANALYSIS:**">> \o profile_comment
                     \o <<"*continues staring at you through the screen*">>)
    /\ profile_comments' = ProfileComments(recorded, u)
    /\ chat_response' = NoReply
    /\ UNCHANGED <<conv, user_data, current_mood, mood_set_time, mood_read, now>>

profile_command(u) ==
    LET upd == CommandUpdate(u, "profile") IN
    /\ steps < MaxUpdates
    /\ Route(upd) = [kind |-> "app", callback |-> "profile_command"]
    /\ \E profile_comment \in get_profile_comment(users, u) :
          IF profile_comment = NoComment
          THEN Answered(upd, "profile_command",
                       <<"You're new. I haven't gathered enough data to construct your psychological profile.">>)
          ELSE Answered(upd, "profile_command",
                       <<"**PSYCHOLOGICAL PROFILE ANALYSIS:**">> \o profile_comment
                         \o <<"*continues staring at you through the screen*">>)
    /\ profile_comments' = ProfileComments(users, u)
    /\ chat_response' = NoReply
    /\ UNCHANGED <<conv, user_data, users, current_mood, mood_set_time, mood_read, now>>

darkfact_command(u) ==
    LET upd == CommandUpdate(u, "darkfact") IN
    /\ steps < MaxUpdates
    /\ Route(upd) = [kind |-> "app", callback |-> "darkfact_command"]
    /\ \E fact \in DARK_FACTS :
          Handled(upd, "darkfact_command", <<"**TODAY'S MORBID EDUCATION:**">> \o fact)
    /\ UNCHANGED <<conv, user_data, users, current_mood, mood_set_time, mood_read, now>>

goodbye_command(u) ==
    LET upd == CommandUpdate(u, "goodbye") IN
    /\ steps < MaxUpdates
    /\ Route(upd) = [kind |-> "app", callback |-> "goodbye_command"]
    /\ \E response \in GOODBYE_RESPONSES :
          Handled(upd, "goodbye_command",
                  response \o <<"*The screen flickers. Wednesday fades into digital darkness.*">>)
    /\ UNCHANGED <<conv, user_data, users, current_mood, mood_set_time, mood_read, now>>

\* start_command, help_command, game_command: a fixed text each
FixedTexts ==
    [start |-> <<"*The digital void materializes into Wednesday Addams*", "Greetings, ">>,
     help  |-> <<"**ASSISTANCE (Though I question why you need it)**">>,
     game  |-> <<"**INTERACTIVE TORMENTS:**">>]

start_command(u) ==
    LET upd == CommandUpdate(u, "start") IN
    /\ steps < MaxUpdates
    /\ Route(upd) = [kind |-> "app", callback |-> "start_command"]
    /\ Handled(upd, "start_command", FixedTexts.start \o <<FirstName(u)>>)
    /\ UNCHANGED <<conv, user_data, users, current_mood, mood_set_time, mood_read, now>>

help_command(u) ==
    LET upd == CommandUpdate(u, "help") IN
    /\ steps < MaxUpdates
    /\ Route(upd) = [kind |-> "app", callback |-> "help_command"]
    /\ Handled(upd, "help_command", FixedTexts.help)
    /\ UNCHANGED <<conv, user_data, users, current_mood, mood_set_time, mood_read, now>>

game_command(u) ==
    LET upd == CommandUpdate(u, "game") IN
    /\ steps < MaxUpdates
    /\ Route(upd) = [kind |-> "app", callback |-> "game_command"]
    /\ Handled(upd, "game_command", FixedTexts.game)
    /\ UNCHANGED <<conv, user_data, users, current_mood, mood_set_time, mood_read, now>>

handle_photo(u) ==
    LET upd == PhotoUpdate(u) IN
    /\ steps < MaxUpdates
    /\ Route(upd) = [kind |-> "app", callback |-> "handle_photo"]
    /\ \E analysis \in Choice("analyses", NumPhotoAnalyses) :
          Handled(upd, "handle_photo",
                  analysis \o <<"Next time, consider: Gothic filters.">>)
    /\ UNCHANGED <<conv, user_data, users, current_mood, mood_set_time, mood_read, now>>

\* the steps the clock makes between two updates: half the lifetime of a mood,
\* the lifetime, the lifetime and a second
Jumps == {MoodLifetime \div 2, MoodLifetime, MoodLifetime + 1}

\* time passes between two updates
Tick(d) ==
    /\ now + d <= MaxTime
    /\ now' = now + d
    /\ UNCHANGED <<conv, user_data, users, current_mood, mood_set_time, mood_read,
                   update, handler, reply, raised, steps,
                   chat_response, profile_comments>>

----------------------------------------------------------------------------
(* Specifications *)

NoUpdate == [user |-> "", type |-> "none", cmd |-> "", text |-> <<>>]

\* the texts handle_message classifies: the spec's greeting that names death,
\* texts of several categories, of one category, and of none with 4 and 5 words
TxtHelloDeath == <<"h", "e", "l", "l", "o", ",", " ", "t", "e", "l", "l", " ", "m", "e", " ", "a", "b", "o", "u", "t", " ", "d", "e", "a", "t", "h">>
TxtHappyDeath == <<"h", "a", "p", "p", "y", " ", "d", "e", "a", "t", "h">>
TxtDarkWassupNice == <<"d", "a", "r", "k", " ", "w", "a", "s", "s", "u", "p", " ", "n", "i", "c", "e">>
TxtWassupNice == <<"W", "a", "s", "s", "u", "p", " ", "n", "i", "c", "e">>
TxtNice == <<"n", "i", "c", "e">>
TxtFive == <<"a", " ", "b", " ", "c", " ", "d", " ", "e">>
TxtDarkDeath == <<"d", "a", "r", "k", " ", "d", "e", "a", "t", "h">>
TxtKill == <<"k", "i", "l", "l">>
TxtTorture == <<"t", "o", "r", "t", "u", "r", "e">>
TxtFour == <<"a", " ", "b", " ", "c", " ", "d">>

ClassifierTexts ==
    {TxtHelloDeath, TxtHappyDeath, TxtDarkDeath, TxtDarkWassupNice,
     TxtWassupNice, TxtNice, TxtKill, TxtTorture, TxtFour, TxtFive}

\* the module-level instances wednesday, memory, games and a fresh Application
Init ==
    /\ conv = [k \in Kinds |-> <<>>]
    /\ user_data = [u \in Users |-> <<>>]
    /\ users = <<>>
    /\ \E m \in Moods : current_mood = Drawn(m)
    /\ mood_set_time = 0
    /\ mood_read = NeverRead
    /\ now = 0
    /\ update = NoUpdate
    /\ handler = NoHandler
    /\ reply = NoReply
    /\ raised = NoException
    /\ steps = 0
    /\ chat_response = NoReply
    /\ profile_comments = <<>>

\* one update of a user goes through the Application
Process(u) ==
    \/ hidebody_start(u)
    \/ poison_game(u)
    \/ plotnovel_start(u)
    \/ curse_start(u)
    \/ cancel_conversation(u)
    \/ \E c \in Kinds \cup {"cancel"} : Unhandled(u, c)
    \/ \E t \in LocationTexts : hidebody_location(u, t)
    \/ \E t \in MethodTexts : hidebody_method(u, t)
    \/ \E t \in AnswerTexts : poison_answer(u, t)
    \/ \E t \in ContributionTexts : plotnovel_contribute(u, t)
    \/ \E t \in TargetTexts : curse_target(u, t)
    \/ \E t \in ReasonTexts : curse_generate(u, t)
    \/ \E t \in ChatTexts : handle_message(u, t)

Next == \E u \in Users : Process(u)

Spec == Init /\ [][Next]_vars

\* the two callers of get_mood and a command that does not call it, as time passes
Query(u) ==
    \/ mood_command(u)
    \/ profile_command(u)
    \/ handle_message(u, Txtb)

NextMood ==
    \/ \E d \in Jumps : Tick(d)
    \/ \E u \in Users : Query(u)

SpecMood == Init /\ [][NextMood]_vars

\* profiles memory.users can hold once a user has sent texts: the counts around
\* the threshold of get_profile_comment, with and without dark interests
StoredCounts == {1, PersistenceCount, PersistenceCount + 1}

StoredInterests == {<<>>, <<KwDeath>>, <<KwDeath, KwDark>>}

StoredProfiles(u) ==
    {[name |-> FirstName(u), first_contact |-> 0, message_count |-> c,
      dark_interests |-> d, last_interaction |-> 0, grudges |-> <<>>] :
        c \in StoredCounts, d \in StoredInterests}

Stores ==
    UNION {{us \in [S -> UNION {StoredProfiles(u) : u \in S}] :
               \A u \in S : us[u] \in StoredProfiles(u)} : S \in SUBSET Users}

\* the state with memory.users drawn from Stores, the empty store included
InitMemory ==
    /\ conv = [k \in Kinds |-> <<>>]
    /\ user_data = [u \in Users |-> <<>>]
    /\ users \in Stores
    /\ \E m \in Moods : current_mood = Drawn(m)
    /\ mood_set_time = 0
    /\ mood_read = NeverRead
    /\ now = 0
    /\ update = NoUpdate
    /\ handler = NoHandler
    /\ reply = NoReply
    /\ raised = NoException
    /\ steps = 0
    /\ chat_response = NoReply
    /\ profile_comments = <<>>

\* the days that pass between two updates: a week, and a day more
DayJumps == {AbsenceDays, AbsenceDays + 1}

\* days passing under a ConversationHandler built with a conversation_timeout:
\* the conversations have expired
TickDaysExpiring(d) ==
    /\ now + d * SecondsPerDay <= MaxDays * SecondsPerDay
    /\ now' = now + d * SecondsPerDay
    /\ conv' = [k \in Kinds |-> <<>>]
    /\ UNCHANGED <<user_data, users, current_mood, mood_set_time, mood_read,
                   update, handler, reply, raised, steps,
                   chat_response, profile_comments>>

TickDays(d) ==
    /\ now + d * SecondsPerDay <= MaxDays * SecondsPerDay
    /\ now' = now + d * SecondsPerDay
    /\ UNCHANGED <<conv, user_data, users, current_mood, mood_set_time, mood_read,
                   update, handler, reply, raised, steps,
                   chat_response, profile_comments>>

\* the callers of get_profile_comment, days apart
NextMemory ==
    \/ \E d \in DayJumps : TickDays(d)
    \/ \E u \in Users : profile_command(u)
    \/ \E u \in Users : handle_message(u, Txtb)

SpecMemory == InitMemory /\ [][NextMemory]_vars

\* a text for each state of each game: a valid and an invalid location, a right
\* and a wrong poison
Advance(u) ==
    \/ \E t \in {TxtA, TxtZ} : hidebody_location(u, t)
    \/ hidebody_method(u, TxtAcid)
    \/ \E t \in {TxtCYANIDE, Txtb} : poison_answer(u, t)
    \/ plotnovel_contribute(u, TxtAcid)
    \/ curse_target(u, TxtMyBoss)
    \/ curse_generate(u, TxtLunch)

\* the commands added as plain CommandHandlers, and a photo
Menu(u) ==
    \/ start_command(u)
    \/ help_command(u)
    \/ profile_command(u)
    \/ darkfact_command(u)
    \/ mood_command(u)
    \/ game_command(u)
    \/ goodbye_command(u)
    \/ handle_photo(u)

\* the entry points of the four ConversationHandlers
Enter(u) ==
    \/ hidebody_start(u)
    \/ poison_game(u)
    \/ plotnovel_start(u)
    \/ curse_start(u)

\* the games of both users, and texts outside them, days apart
NextSessions ==
    \/ \E d \in DayJumps : TickDays(d)
    \/ \E u \in Users :
          \/ Enter(u)
          \/ Advance(u)
          \/ cancel_conversation(u)
          \/ \E c \in Kinds \cup {"cancel"} : Unhandled(u, c)
          \/ handle_message(u, Txtb)

SpecSessions == Init /\ [][NextSessions]_vars

\* the plain commands and photos of users in and out of the games, days apart
NextMenu ==
    \/ \E d \in DayJumps : TickDays(d)
    \/ \E u \in Users :
          \/ Enter(u)
          \/ Menu(u)
          \/ handle_message(u, Txtb)

SpecMenu == Init /\ [][NextMenu]_vars

\* texts of users without a session, each answered by handle_message
NextChat == \E u \in Users, t \in ClassifierTexts : handle_message(u, t)

SpecChat == Init /\ [][NextChat]_vars

----------------------------------------------------------------------------
(* What the claims speak of *)

\* this step processes an update
UpdateStep == steps' = steps + 1

\* this step processes a non-command text of user u
TextStep(u) == UpdateStep /\ update'.type = "text" /\ update'.user = u

\* this step processes the command c of user u
CommandStep(u, c) == UpdateStep /\ update' = CommandUpdate(u, c)

\* the conversation state of u in game k is s
InState(k, u, s) == Active(k, u) /\ conv[k][u] = s

\* the first game, in the order the handlers were added, in which u has a session
FirstActiveKind(u) ==
    KindOrder[CHOOSE n \in 1..Len(KindOrder) :
                 /\ Active(KindOrder[n], u)
                 /\ \A j \in 1..(n - 1) : ~Active(KindOrder[j], u)]

\* the advance callbacks of the games
AdvanceCallbacks ==
    {"hidebody_location", "hidebody_method", "poison_answer",
     "plotnovel_contribute", "curse_target", "curse_generate"}

----------------------------------------------------------------------------
(* C1: each user holds at most one active game session, over the four games *)

\* C1 as stated: in every reachable state no user has sessions in two games
C1_AtMostOneSessionPerUser ==
    \A u \in Users : Cardinality(ActiveKinds(u)) <= 1

----------------------------------------------------------------------------
(* C2: a text of a user with a session goes to the session alone *)

\* C2: when a user with an active session sends a non-command text, the callback
\* that runs is the advance callback of a session of that user (the first in
\* handler order), handle_message does not run, and memory.users is unchanged
C2_SessionTextBypassesMemory ==
    [][\A u \in Users :
          (TextStep(u) /\ ActiveKinds(u) # {}) =>
              /\ handler' = StateCallbacks[FirstActiveKind(u)][conv[FirstActiveKind(u)][u]]
              /\ handler' \in AdvanceCallbacks
              /\ handler' # "handle_message"
              /\ users' = users]_vars

\* C2 witness: a user whose profile exists has had a text taken by the poison game
C2_Witness ==
    /\ update.type = "text"
    /\ handler = "poison_answer"
    /\ update.user \in DOMAIN users
    /\ users[update.user].message_count = 1

----------------------------------------------------------------------------
(* C3: what a game's entry command does *)

\* C3 as stated: in every state of the user the entry command leaves a session
\* of that game in its initial state and sends the scenario text
C3_EntryAlwaysStarts ==
    [][\A u \in Users, k \in Kinds :
          CommandStep(u, k) =>
              /\ u \in DOMAIN conv'[k]
              /\ conv'[k][u] = InitialState[k]
              /\ reply' # NoReply
              /\ SubSeq(reply', 1, 1) = ScenarioText[k]]_vars

\* C3 amended: the entry command starts the game (initial state, scenario text)
\* when the user has no session of that game, whatever sessions of other games
\* are active; when a session of that game is active the command is dropped:
\* no callback runs, nothing is sent, and every session and user_data stay
C3_EntryStartsUnlessActive ==
    [][\A u \in Users, k \in Kinds :
          CommandStep(u, k) =>
              IF ~Active(k, u)
              THEN /\ handler' = EntryCallback[k]
                   /\ u \in DOMAIN conv'[k]
                   /\ conv'[k][u] = InitialState[k]
                   /\ reply' # NoReply
                   /\ SubSeq(reply', 1, 1) = ScenarioText[k]
                   /\ \A other \in Kinds \ {k} : conv'[other] = conv[other]
              ELSE /\ handler' = NoHandler
                   /\ reply' = NoReply
                   /\ conv' = conv
                   /\ user_data' = user_data]_vars

\* C3 witness: /hidebody was sent in the Method state and dropped
C3_Witness ==
    /\ update.type = "command"
    /\ update.cmd = "hidebody"
    /\ handler = NoHandler
    /\ InState("hidebody", update.user, HIDE_BODY_METHOD)

----------------------------------------------------------------------------
(* C4: /cancel ends the user's game *)

\* C4 as stated: /cancel of a user with an active session sends the cancellation
\* text and leaves that user without any session
C4_CancelLeavesNoSession ==
    [][\A u \in Users :
          (CommandStep(u, "cancel") /\ ActiveKinds(u) # {}) =>
              /\ reply' = CancelText
              /\ \A k \in Kinds : u \notin DOMAIN conv'[k]]_vars

----------------------------------------------------------------------------
(* C5, C6: the hideBody game *)

\* the four option letters in either letter case
OptionLetters == {TxtA, TxtB, TxtC, TxtD, Txta, Txtb, Txtc, Txtd}

\* C5: in the Location state a text that is none of the option letters ends the
\* session with the invalid-choice text, and the text the same user sends next
\* is not taken as a Location answer
C5_InvalidLocationAborts ==
    [][\A u \in Users :
          /\ (TextStep(u) /\ InState("hidebody", u, HIDE_BODY_LOCATION)
                /\ update'.text \notin OptionLetters) =>
                 /\ handler' = "hidebody_location"
                 /\ reply' = InvalidChoiceText
                 /\ u \notin DOMAIN conv'["hidebody"]
          /\ (TextStep(u) /\ update.user = u /\ handler = "hidebody_location"
                /\ reply = InvalidChoiceText) =>
                 handler' # "hidebody_location"]_vars

\* C5 witness: the letter A followed by a space was rejected and the session is gone
C5_Witness ==
    /\ handler = "hidebody_location"
    /\ update.text = TxtASpace
    /\ reply = InvalidChoiceText
    /\ ~Active("hidebody", update.user)

\* C6: in the Location state an option letter in either case moves the session
\* to Method, still active; in the Method state every text ends the session
C6_LocationThenMethod ==
    [][\A u \in Users :
          /\ (TextStep(u) /\ InState("hidebody", u, HIDE_BODY_LOCATION)
                /\ update'.text \in OptionLetters) =>
                 /\ handler' = "hidebody_location"
                 /\ u \in DOMAIN conv'["hidebody"]
                 /\ conv'["hidebody"][u] = HIDE_BODY_METHOD
                 /\ reply' # InvalidChoiceText
          /\ (TextStep(u) /\ InState("hidebody", u, HIDE_BODY_METHOD)) =>
                 /\ handler' = "hidebody_method"
                 /\ u \notin DOMAIN conv'["hidebody"]]_vars

\* C6 witness: a lower-case letter was accepted and the session is in Method
C6_Witness ==
    /\ handler = "hidebody_location"
    /\ update.text = Txtc
    /\ InState("hidebody", update.user, HIDE_BODY_METHOD)

----------------------------------------------------------------------------
(* C7: the poison game *)

\* two characters are the same letter in either case, or the same character
SameIgnoringCase(c, d) ==
    \/ c = d
    \/ \E i \in 1..Len(LowerLetters) : {c, d} = {LowerLetters[i], UpperLetters[i]}

\* two texts are equal compared case-insensitively
EqualIgnoringCase(a, b) ==
    /\ Len(a) = Len(b)
    /\ \A i \in 1..Len(a) : SameIgnoringCase(a[i], b[i])

\* a text without the whitespace around it: x is the trimmed form of t
IsTrimmed(x, t) ==
    /\ x = <<>> \/ (x[1] \notin Whitespace /\ x[Len(x)] \notin Whitespace)
    /\ \E i \in 0..Len(t) :
          /\ i + Len(x) <= Len(t)
          /\ \A j \in 1..Len(x) : t[i + j] = x[j]
          /\ \A j \in 1..Len(t) : (j <= i \/ j > i + Len(x)) => t[j] \in Whitespace

\* C7: a text sent in the poison game is judged by poison_answer (the hideBody
\* game, which is asked first, having no session of the user); the stored name
\* and trivia are those of one specimen; the reply says correct exactly when the trimmed text equals the
\* stored name compared case-insensitively, it carries the stored name and
\* trivia in both cases, and the session ends in both cases
C7_PoisonJudgement ==
    [][\A u \in Users :
          /\ (TextStep(u) /\ InState("poison", u, POISON_GAME)
                /\ ~Active("hidebody", u)) => handler' = "poison_answer"
          /\ (TextStep(u) /\ handler' = "poison_answer") =>
             /\ {"poison_answer", "poison_trivia"} \subseteq DOMAIN user_data[u]
             /\ \E i \in 1..Len(Poisons) :
                   /\ user_data[u]["poison_answer"] = Poisons[i].name
                   /\ user_data[u]["poison_trivia"] = <<Poisons[i].trivia>>
                   /\ \E x \in {SubSeq(update'.text, a, b) :
                                    a \in 1..(Len(update'.text) + 1),
                                    b \in 0..Len(update'.text)} :
                         /\ IsTrimmed(x, update'.text)
                         /\ reply'[1] = (IF EqualIgnoringCase(x, Poisons[i].name)
                                         THEN "**CORRECT.**" ELSE "**INCORRECT.**")
                   /\ SubSeq(reply', 3, Len(reply'))
                        = Poisons[i].name \o <<". ", Poisons[i].trivia>>
             /\ u \notin DOMAIN conv'["poison"]]_vars

\* C7 witness: the padded lower-case name was judged correct
C7_Witness ==
    /\ handler = "poison_answer"
    /\ update.text = TxtRicinPadded
    /\ reply[1] = "**CORRECT.**"
    /\ ~Active("poison", update.user)

----------------------------------------------------------------------------
(* C8: the curse game *)

\* the curses the five templates give for a target and a reason
Curses(target, reason) ==
    {<<curse_templates[i][1]>> \o target \o <<curse_templates[i][2]>> \o reason
        \o <<curse_templates[i][3]>> : i \in 1..5}

\* the text after THE HEX in the reply of curse_generate
HexOf(text) ==
    LET at == CHOOSE n \in 1..Len(text) : text[n] = "**THE HEX:**"
    IN  SubSeq(text, at + 1, Len(text))

\* C8: a text sent in the curse game goes to the callback of its state
\* (no game asked earlier holding a session of the user); the text given at
\* Target is stored without the whitespace around it and the session moves to
\* Reason; while the session waits in Reason the stored target does not change;
\* the text given at Reason, without the whitespace around it, yields one of the
\* five templates with the stored target and that reason substituted, and the
\* session ends
C8_CurseUsesStoredTarget ==
    [][\A u \in Users :
          /\ (TextStep(u) /\ Active("curse", u) /\ FirstActiveKind(u) = "curse") =>
                handler' = StateCallbacks["curse"][conv["curse"][u]]
          /\ (TextStep(u) /\ handler' = "curse_target") =>
                /\ InState("curse", u, CURSE_TARGET)
                /\ "curse_target" \in DOMAIN user_data'[u]
                /\ IsTrimmed(user_data'[u]["curse_target"], update'.text)
                /\ u \in DOMAIN conv'["curse"]
                /\ conv'["curse"][u] = CURSE_REASON
          /\ InState("curse", u, CURSE_REASON) =>
                /\ "curse_target" \in DOMAIN user_data[u]
                /\ user_data'[u]["curse_target"] = user_data[u]["curse_target"]
          /\ (TextStep(u) /\ handler' = "curse_generate") =>
                /\ InState("curse", u, CURSE_REASON)
                /\ \E reason \in {SubSeq(update'.text, a, b) :
                                     a \in 1..(Len(update'.text) + 1),
                                     b \in 0..Len(update'.text)} :
                      /\ IsTrimmed(reason, update'.text)
                      /\ HexOf(reply') \in Curses(user_data[u]["curse_target"], reason)
                /\ u \notin DOMAIN conv'["curse"]]_vars

\* C8 witness: a curse was made of a padded target and a padded reason
C8_Witness ==
    /\ handler = "curse_generate"
    /\ update.text = TxtLatePadded
    /\ "curse_target" \in DOMAIN user_data[update.user]
    /\ user_data[update.user]["curse_target"] = Strip(TxtMyExPadded)
    /\ ~Active("curse", update.user)

----------------------------------------------------------------------------
(* C9, C10: the mood *)

\* this step runs a callback that calls get_mood
ReadStep == UpdateStep /\ handler' \in {"mood_command", "handle_message"}

\* C9: a read at most 3600 seconds after the mood was set returns the live mood,
\* which is what the read before it returned, and leaves the mood and the time
\* it was set; the mood and that time change in no step but a read later than that
C9_FreshMoodIsKept ==
    [][/\ (ReadStep /\ now - mood_set_time <= 3600) =>
             /\ mood_read'.at = now
             /\ mood_read'.value = current_mood
             /\ (mood_read # NeverRead => mood_read'.value = mood_read.value)
             /\ current_mood' = current_mood
             /\ mood_set_time' = mood_set_time
       /\ (current_mood' # current_mood \/ mood_set_time' # mood_set_time) =>
             (ReadStep /\ now - mood_set_time > 3600)]_vars

\* C9 witness: a mood set by a resample was read exactly 3600 seconds later
C9_Witness ==
    /\ mood_set_time > 0
    /\ mood_read.at - mood_set_time = 3600
    /\ mood_read.value = current_mood

\* C10: a read more than 3600 seconds after the mood was set draws a mood, returns
\* it and sets the time to the time of the read; the read that follows a
\* resampling read within 3600 seconds of it changes neither
C10_StaleMoodIsRedrawn ==
    [][/\ (ReadStep /\ now - mood_set_time > 3600) =>
             /\ \E m \in Moods : current_mood' = Drawn(m)
             /\ mood_read' = [value |-> current_mood', at |-> now]
             /\ mood_set_time' = now
       /\ (ReadStep /\ mood_read.at = mood_set_time /\ now - mood_read.at <= 3600) =>
             /\ current_mood' = current_mood
             /\ mood_set_time' = mood_set_time]_vars

\* C10 witness: after a resample a second read came within 3600 seconds of it
C10_Witness ==
    /\ mood_set_time > 0
    /\ mood_read.at > mood_set_time
    /\ mood_read.at - mood_set_time <= 3600
    /\ mood_read.value = current_mood

----------------------------------------------------------------------------
(* C11, C12: the value of the mood *)

\* the five mood values, as strings
MoodValues == {Str("plotting"), Str("literary"), Str("scientific"),
               Str("philosophical"), Str("vulnerable")}

\* C11 as stated: in every reachable state the live mood is one of the five mood
\* values, and so is the value the last read returned
C11_MoodIsOneOfFive ==
    /\ current_mood \in MoodValues
    /\ mood_read # NeverRead => mood_read.value \in MoodValues

\* C12 as stated: the mood command raises nothing and replies with the
\* description of the mood that is current after its read
C12_MoodCommandNeverFails ==
    [][(UpdateStep /\ handler' = "mood_command") =>
          /\ raised' = NoException
          /\ \E m \in Moods :
                /\ current_mood' \in {Str(m), List(<<m>>)}
                /\ reply' = <<"**CURRENT MOOD STATE:**", MoodDescriptions[m]>>]_vars

----------------------------------------------------------------------------
(* C13: the order of the classifier's rules *)

\* this step is handle_message answering a text of user u
ChatStep(u) == TextStep(u) /\ handler' = "handle_message"

\* the keyword categories in the order of the claim, each with its tokens
CategoryOrder == <<"greeting", "cheerful", "dark topic", "small talk", "compliment">>

CategoryTokens ==
    <<GreetingWords, CheerfulWords, DarkTopicWords, SmallTalkWords, ComplimentWords>>

\* the categories of which the text, in lower case, contains a token
MatchingCategories(t) ==
    LET lowered == Lower(t) IN
    {n \in 1..Len(CategoryOrder) : AnyIn(CategoryTokens[n], lowered)}

\* the earliest matching category, default when none matches
EarliestCategory(t) ==
    LET matching == MatchingCategories(t) IN
    IF matching = {} THEN "default"
    ELSE CategoryOrder[CHOOSE n \in matching : \A j \in matching : n <= j]

\* the same, tabulated for the texts handle_message is given
Matching == [t \in ClassifierTexts |-> MatchingCategories(t)]

Earliest == [t \in ClassifierTexts |-> EarliestCategory(t)]

\* the category a reply was taken from, by the corpus of its first passage
ReplyCategory(r) ==
    CASE r[1] = "OPENING_LINES" -> "greeting"
      [] r[1] = "cheerful" -> "cheerful"
      [] r[1] = "dark_topic" -> "dark topic"
      [] r[1] = "small_talk" -> "small talk"
      [] r[1] = "compliment" -> "compliment"
      [] OTHER -> "default"

\* C13: every text handle_message answers gets the reply of the earliest
\* category, in the order greeting, cheerful, dark topic, small talk, compliment,
\* default, of which it contains a token; a text with a greeting token and a
\* dark-topic token is answered as a greeting
C13_EarliestCategoryReplies ==
    [][\A u \in Users :
          ChatStep(u) =>
             /\ ReplyCategory(reply') = Earliest[update'.text]
             /\ ({1, 3} \subseteq Matching[update'.text]
                    => ReplyCategory(reply') = "greeting")]_vars

\* C13 witness: the greeting that names death was answered with an opening line
C13_Witness ==
    /\ handler = "handle_message"
    /\ update.text = TxtHelloDeath
    /\ {1, 3} \subseteq Matching[update.text]
    /\ reply[1] = "OPENING_LINES"

----------------------------------------------------------------------------
(* C14, C15, C16: the replies that depend on the mood *)

\* the name of a mood value, held as a string or as a list of one string
MoodName(v) == IF "str" \in DOMAIN v THEN v.str ELSE v.list[1]

\* the words of the texts handle_message is given
Words == [t \in ClassifierTexts |-> WordCount(t)]

\* the default paragraph of each mood
MoodParagraph ==
    [plotting |-> "Interesting. I'm incorporating this into my master plan.",
     literary |-> "Your message reminds me of a line from Poe.",
     scientific |-> "I'm conducting an experiment on human communication patterns.",
     philosophical |-> "We're all just temporary arrangements of atoms.",
     vulnerable |-> "I'm processing your words with approximately 23% of my attention."]

\* C14 as stated: for a text of no keyword category the classifier returns a
\* bored response when the text has fewer than 5 words and otherwise the
\* paragraph of the current mood, the five paragraphs being different
C14_DefaultReplyFollowsMood ==
    [][\A u \in Users :
          (ChatStep(u) /\ Earliest[update'.text] = "default") =>
             /\ \A m1, m2 \in Moods : m1 # m2 => MoodParagraph[m1] # MoodParagraph[m2]
             /\ IF Words[update'.text] < 5
                THEN chat_response' \in BORED_RESPONSES
                ELSE chat_response' = <<MoodParagraph[MoodName(current_mood')]>>]_vars

\* the elaboration a greeting gets in three of the moods
Elaboration ==
    [plotting |-> " I'm in the middle of orchestrating someone's social demise.",
     literary |-> " I was writing Chapter 47 of my novel.",
     scientific |-> " I'm calculating the optimal angle for a guillotine blade. Efficiency matters, "]

\* C15 as stated: the reply to a greeting is an opening line, followed by the
\* elaboration of the mood when the mood is plotting, literary or scientific,
\* and alone when it is philosophical or vulnerable
C15_GreetingElaboratesByMood ==
    [][\A u \in Users :
          (ChatStep(u) /\ Earliest[update'.text] = "greeting") =>
             /\ SubSeq(chat_response', 1, 2) \in OPENING_LINES
             /\ IF MoodName(current_mood') \in DOMAIN Elaboration
                THEN /\ Len(chat_response') > 2
                     /\ chat_response'[3] = Elaboration[MoodName(current_mood')]
                ELSE Len(chat_response') = 2]_vars

\* the coda of the philosophical mood
Coda == "Death is merely the universe's way of correcting an accounting error."

\* C16 as stated: the reply to a dark topic carries a dark fact exactly when the
\* text, in lower case, contains death, and the coda exactly when the current
\* mood is philosophical
C16_DarkTopicAppends ==
    [][\A u \in Users :
          (ChatStep(u) /\ Earliest[update'.text] = "dark topic") =>
             LET r == chat_response'
                 fact == Len(r) > 3 /\ SubSeq(r, 3, 4) \in DARK_FACTS
                 coda == r[Len(r)] = Coda
             IN  /\ r[1] = "dark_topic"
                 /\ fact <=> Contains(Lower(update'.text), KwDeath)
                 /\ coda <=> MoodName(current_mood') = "philosophical"
                 /\ Len(r) = 2 + (IF fact THEN 2 ELSE 0) + (IF coda THEN 1 ELSE 0)]_vars

----------------------------------------------------------------------------
(* C17: dark interests are recorded once *)

\* the watch-list keywords a text contains, in lower case
Observed ==
    [t \in ClassifierTexts |->
        {dark_keywords[n] : n \in {j \in 1..Len(dark_keywords) :
                                      Contains(Lower(t), dark_keywords[j])}}]

\* the elements of a list
Elements(list) == {list[n] : n \in 1..Len(list)}

\* dark_interests of u, empty before the first record
Interests(us, u) == IF u \in DOMAIN us THEN us[u].dark_interests ELSE <<>>

\* C17: every record_interaction leaves dark_interests without duplicates; the
\* keywords recorded before stay where they were, the watch-list keywords of
\* the message not recorded before come after them, once each; a message whose
\* keywords are all recorded leaves the list as it was
C17_DarkInterestsRecordedOnce ==
    [][\A u \in Users :
          ChatStep(u) =>
             LET old == Interests(users, u)
                 new == Interests(users', u)
                 seen == Observed[update'.text]
             IN  /\ Cardinality(Elements(new)) = Len(new)
                 /\ Len(old) <= Len(new) /\ SubSeq(new, 1, Len(old)) = old
                 /\ Elements(new) = Elements(old) \cup seen
                 /\ seen \subseteq Elements(old) => new = old
                 /\ \A other \in Users \ {u} :
                       Interests(users', other) = Interests(users, other)]_vars

\* C17 witness: death was recorded, then a second message naming death and a new
\* keyword added the new keyword alone
C17_Witness ==
    /\ handler = "handle_message"
    /\ update.text = TxtDarkDeath
    /\ update.user \in DOMAIN users
    /\ users[update.user].message_count = 2
    /\ users[update.user].dark_interests = <<KwDeath, KwDark>>

----------------------------------------------------------------------------
(* C18: no update of a profile is lost *)

\* handle_message has no await before its reply_text (line 718), so a handler
\* runs from its start to its only suspension point as one step, and the
\* handlers of concurrently dispatched updates interleave as whole steps: any
\* order of the steps of the users, which is what the specification explores.

\* C18: memory.users starts empty; a text of a user without a session goes to
\* handle_message, and that step creates the profile if there is none and adds
\* one to its message_count, leaving the other profiles; no other step changes
\* memory.users; so a profile exists exactly when such a text was handled, and
\* message_count is the number of them
C18_NoProfileUpdateLost ==
    [][\A u \in Users :
          /\ steps = 0 => DOMAIN users = {}
          /\ (TextStep(u) /\ ActiveKinds(u) = {}) => handler' = "handle_message"
          /\ ChatStep(u) =>
                /\ ActiveKinds(u) = {}
                /\ u \in DOMAIN users'
                /\ users'[u].message_count = Count(u) + 1
                /\ \A other \in Users \ {u} :
                      /\ other \in DOMAIN users' <=> other \in DOMAIN users
                      /\ other \in DOMAIN users => users'[other] = users[other]
          /\ ~(\E v \in Users : ChatStep(v)) => users' = users
          /\ u \in DOMAIN users => users[u].message_count >= 1]_vars

\* C18 witness: of three updates two were texts of one user handled by
\* handle_message, and the profile counts both
C18_Witness ==
    /\ steps = 3
    /\ handler = "handle_message"
    /\ update.user \in DOMAIN users
    /\ users[update.user].message_count = 2

----------------------------------------------------------------------------
(* C19, C20: the profile comment *)

\* this step is profile_command answering /profile of user u
ProfileStep(u) == CommandStep(u, "profile") /\ handler' = "profile_command"

\* the reply of profile_command when get_profile_comment returned None
NewUserReply ==
    <<"You're new. I haven't gathered enough data to construct your psychological profile.">>

\* C19: for a user without a profile, that is without a recorded interaction,
\* get_profile_comment builds no comment and returns None; for a user whose
\* message_count is greater than 10 it returns one of a non-empty list of
\* comments
C19_CommentAbsentOrPresent ==
    [][\A u \in Users :
          ProfileStep(u) =>
             /\ u \notin DOMAIN users =>
                   (profile_comments' = <<>> /\ reply' = NewUserReply)
             /\ Count(u) > 10 =>
                   /\ profile_comments' # <<>>
                   /\ reply' # NewUserReply
                   /\ \E n \in 1..Len(profile_comments') :
                         reply' = <<"**PSYCHOLOGICAL PROFILE ANALYSIS:**">>
                                    \o profile_comments'[n]
                                    \o <<"*continues staring at you through the screen*">>]_vars

\* C19 witness: a user with 11 messages and no dark interest, seen the same
\* day, was given a comment
C19_Witness ==
    /\ handler = "profile_command"
    /\ update.user \in DOMAIN users
    /\ users[update.user].message_count = 11
    /\ users[update.user].dark_interests = <<>>
    /\ now = users[update.user].last_interaction
    /\ reply # NewUserReply
    /\ Len(profile_comments) = 1

\* the days between the clock and the last interaction of u
DaysAway(us, u) == (now - us[u].last_interaction) \div 86400

\* C20 as stated: when handle_message handles the text of a user last seen more
\* than 7 days before, the comments get_profile_comment has to choose from
\* include the absence comment, with the days counted from the last
\* interaction before this text
C20_AbsenceSeenOnReturn ==
    [][\A u \in Users :
          (ChatStep(u) /\ u \in DOMAIN users /\ DaysAway(users, u) > 7) =>
             \E n \in 1..Len(profile_comments') :
                profile_comments'[n] =
                   <<"You've been absent for ", ToString(DaysAway(users, u)), " days.">>]_vars

----------------------------------------------------------------------------
(* C21: the keywords of the dark-topic rule and of the profile *)

\* every keyword of either list
TopicKeywords ==
    {DarkTopicWords[n] : n \in 1..Len(DarkTopicWords)}
        \cup {dark_keywords[n] : n \in 1..Len(dark_keywords)}

\* the keywords of either list a text contains, in lower case
Named ==
    [t \in ClassifierTexts |-> {k \in TopicKeywords : Contains(Lower(t), k)}]

\* C21 as stated: for every keyword, a text containing it that no earlier rule
\* (greeting, cheerful) takes gets the dark-topic reply exactly when
\* record_interaction has the keyword in dark_interests afterwards
C21_OneKeywordSet ==
    [][\A u \in Users :
          (ChatStep(u) /\ Matching[update'.text] \cap {1, 2} = {}) =>
             \A k \in Named[update'.text] :
                chat_response'[1] = "dark_topic"
                   <=> k \in Elements(Interests(users', u))]_vars

----------------------------------------------------------------------------
(* C22: reads of the mood by handlers of several updates *)

\* the pair of attributes get_mood tests and assigns
MoodPair == <<current_mood, mood_set_time>>

\* C22: get_mood has no await and runs before the first await of its handler, so
\* the reads of handlers interleave as whole steps. A step changes the pair only
\* as a read past the threshold, which draws the mood and sets the time to the
\* time of the read, both at once, and returns what it drew; a read that finds the
\* time set at this very instant (by the read of another handler) changes neither,
\* so of the reads at one instant past the threshold one and only one redraws
C22_ReadsAreAtomic ==
    [][/\ MoodPair' # MoodPair =>
             /\ ReadStep
             /\ now - mood_set_time > 3600
       /\ (ReadStep /\ now - mood_set_time > 3600) =>
             /\ mood_set_time' = now
             /\ \E m \in Moods : current_mood' = Drawn(m)
       /\ (ReadStep /\ mood_set_time = now) => MoodPair' = MoodPair
       /\ ReadStep => mood_read'.value = current_mood']_vars

\* C22 witness: past the threshold the handlers of both users' texts read the mood
\* at the same instant, and the time was set at that instant
C22_Witness ==
    /\ now > 3600
    /\ mood_set_time = now
    /\ mood_read.at = now
    /\ DOMAIN users = Users
    /\ \A u \in Users : users[u].last_interaction = now

----------------------------------------------------------------------------
(* C23: an update of one user and the other users *)

\* what the bot holds of a user: the profile, if any, the state of the session in
\* each game, if any, and the user_data of the games
Held(us, cv, ud, u) ==
    [profile  |-> IF u \in DOMAIN us THEN <<us[u]>> ELSE <<>>,
     sessions |-> [k \in Kinds |-> IF u \in DOMAIN cv[k] THEN <<cv[k][u]>> ELSE <<>>],
     scratch  |-> ud[u]]

\* C23: a step that handles an update of one user (an entry command, a game
\* advance, a cancel, a text outside the games) leaves the profile, the sessions
\* and the user_data of every other user as they were
C23_OtherUsersUntouched ==
    [][\A u \in Users :
          (UpdateStep /\ update'.user = u) =>
             \A o \in Users \ {u} :
                Held(users', conv', user_data', o) = Held(users, conv, user_data, o)]_vars

\* C23 witness: both users had a session in the poison game, one of them has
\* just cancelled, and the session of the other is still there
C23_Witness ==
    \E u \in Users : \E o \in Users \ {u} :
       /\ update.user = u
       /\ handler = "cancel_conversation"
       /\ "poison_answer" \in DOMAIN user_data[u]
       /\ ~Active("poison", u)
       /\ InState("poison", o, POISON_GAME)

----------------------------------------------------------------------------
(* C24: the reply to a text outside the games *)

\* the texts one comment can add to a reply: the comment between asterisks
Starred(comments) == {<<"*">> \o comments[n] \o <<"*">> : n \in 1..Len(comments)}

\* C24: a text outside the games is recorded first: the profile counts it, and
\* the comments get_profile_comment can return are those of the profile that
\* names this text's keywords. The reply is the classifier's reply, then nothing
\* or one of those comments, then nothing or a dark fact; with no comment to
\* return none is appended
C24_ReplyThenAsides ==
    [][\A u \in Users :
          ChatStep(u) =>
             /\ users'[u].message_count = Count(u) + 1
             /\ users'[u].last_interaction = now
             /\ (profile_comments' # <<>>) <=> (Interests(users', u) # <<>>)
             /\ \A n \in 1..Len(profile_comments') :
                   profile_comments'[n] =
                      <<"I've noted your interests in: ">> \o Join(Interests(users', u))
                         \o <<". Your psychological profile is becoming... less boring.">>
             /\ \E comment \in {<<>>} \cup Starred(profile_comments'),
                   fact \in {<<>>} \cup Choice("DARK_FACTS", 8) :
                   reply' = chat_response' \o comment \o fact]_vars

\* C24 witness: the reply to a user's first text carries the classifier's reply,
\* a comment on the keyword of that very text, and a dark fact
C24_Witness ==
    /\ handler = "handle_message"
    /\ users[update.user].message_count = 1
    /\ profile_comments # <<>>
    /\ \E fact \in Choice("DARK_FACTS", 8) :
          reply = chat_response \o <<"*">> \o profile_comments[1] \o <<"*">> \o fact

----------------------------------------------------------------------------
(* C25: every game session ends *)

\* the plain-text messages a session in state s of game k still takes, at most
TextsLeft ==
    [hidebody  |-> (HIDE_BODY_LOCATION :> 2) @@ (HIDE_BODY_METHOD :> 1),
     poison    |-> (POISON_GAME :> 1),
     plotnovel |-> (NOVEL_PLOT :> 1),
     curse     |-> (CURSE_TARGET :> 2) @@ (CURSE_REASON :> 1)]

\* C25 as stated: each plain-text message of a user brings every session the user
\* holds nearer its end: a session with one message left is removed, a session
\* with two is removed or left with one; and no step takes a session to its own
\* or an earlier state
C25_SessionsEnd ==
    [][\A u \in Users, k \in Kinds :
          Active(k, u) =>
             /\ TextStep(u) =>
                   \/ ~Active(k, u)'
                   \/ TextsLeft[k][conv'[k][u]] < TextsLeft[k][conv[k][u]]
             /\ (Active(k, u)' /\ conv'[k][u] # conv[k][u]) =>
                   TextsLeft[k][conv'[k][u]] < TextsLeft[k][conv[k][u]]]_vars

----------------------------------------------------------------------------
(* C26: what removes or changes a game session *)

\* the callbacks that return END, whatever the text
TerminalCallbacks ==
    [hidebody |-> {"hidebody_method"}, poison |-> {"poison_answer"},
     plotnovel |-> {"plotnovel_contribute"}, curse |-> {"curse_generate"}]

\* C26: a session is removed only in a step that handles an update of its own
\* user: a terminal advance of its game, a cancel, or the hidebody location that
\* is no option; it changes state only in an advance of its own user in its game.
\* In every other step (days passing, an update of another user, an update of the
\* user outside that game) the session stays in the state it was in
C26_OnlyOwnStepsEndSessions ==
    [][\A u \in Users, k \in Kinds :
          Active(k, u) =>
             /\ ~Active(k, u)' =>
                   /\ UpdateStep /\ update'.user = u
                   /\ \/ handler' \in TerminalCallbacks[k]
                      \/ handler' = "cancel_conversation"
                      \/ /\ k = "hidebody"
                         /\ handler' = "hidebody_location"
                         /\ reply' = InvalidChoiceText
             /\ (Active(k, u)' /\ conv'[k][u] # conv[k][u]) =>
                   /\ UpdateStep /\ update'.user = u
                   /\ handler' = StateCallbacks[k][conv[k][u]]]_vars

\* C26 witness: eight days after its entry, and after the other user entered and
\* left a game, a session that was sent nothing is in its first state
C26_Witness ==
    \E u \in Users :
       /\ InState("curse", u, CURSE_TARGET)
       /\ now = 8 * 86400
       /\ update.user # u
       /\ handler \in {"poison_answer", "cancel_conversation"}

----------------------------------------------------------------------------
(* C27: the plain commands and photos *)

\* the callback of each query
QueryCallbacks ==
    {"start_command", "help_command", "profile_command", "darkfact_command",
     "mood_command", "game_command", "goodbye_command", "handle_photo"}

\* C27: a plain command (start, help, profile, darkfact, mood, game, goodbye) or
\* a photo, of a user in a game or not, is handled by its own callback and leaves
\* every profile, every session and the user_data of the games; the profile
\* command leaves message_count and last_interaction. Of these only the mood
\* command changes the mood or the time it was set, and only by the redraw of a
\* read more than 3600 seconds after it was set
C27_QueriesChangeNothing ==
    [][\A u \in Users :
          (/\ UpdateStep /\ update'.user = u
           /\ update'.type = "photo" \/ update'.cmd \in SimpleCommands) =>
             /\ handler' = IF update'.type = "photo" THEN "handle_photo"
                           ELSE update'.cmd \o "_command"
             /\ users' = users
             /\ conv' = conv
             /\ user_data' = user_data
             /\ MoodPair' # MoodPair =>
                   /\ handler' = "mood_command"
                   /\ now - mood_set_time > 3600
                   /\ mood_set_time' = now]_vars

\* C27 witness: a user with a recorded text and a session in a game asked for the
\* profile
C27_Witness ==
    /\ handler = "profile_command"
    /\ update.user \in DOMAIN users
    /\ users[update.user].message_count = 1
    /\ InState("poison", update.user, POISON_GAME)

----------------------------------------------------------------------------
(* C28: the poison a session asks about *)

\* the name and the trivia user_data holds for u, if any
StoredPoison(ud, u) ==
    [k \in DOMAIN ud[u] \cap {"poison_answer", "poison_trivia"} |-> ud[u][k]]

\* C28: the entry of the poison game shows the symptoms of one poison and stores
\* the name and the trivia of that same poison for the user; while the user's
\* session is active no step, of this user or another, changes the stored name
\* or trivia; and the answer is told the stored name and trivia
C28_StoredPoisonIsTheOneShown ==
    [][\A u \in Users :
          /\ (CommandStep(u, "poison") /\ handler' = "poison_game") =>
                \E i \in 1..Len(Poisons) :
                   /\ reply'[Len(reply') - 1] = Poisons[i].symptoms
                   /\ StoredPoison(user_data', u)
                        = [poison_answer |-> Poisons[i].name,
                           poison_trivia |-> <<Poisons[i].trivia>>]
                   /\ InState("poison", u, POISON_GAME)'
          /\ Active("poison", u) =>
                StoredPoison(user_data', u) = StoredPoison(user_data, u)
          /\ (TextStep(u) /\ handler' = "poison_answer") =>
                SubSeq(reply', 3, Len(reply'))
                   = user_data[u]["poison_answer"] \o <<". ">> \o user_data[u]["poison_trivia"]]_vars

\* C28 witness: between a user's poison entry and the right answer the other user
\* entered the poison game and was shown another poison
C28_Witness ==
    \E u \in Users : \E o \in Users \ {u} :
       /\ update.user = u
       /\ handler = "poison_answer"
       /\ reply[1] = "**CORRECT.**"
       /\ steps = 3
       /\ InState("poison", o, POISON_GAME)
       /\ user_data[o]["poison_answer"] # user_data[u]["poison_answer"]

----------------------------------------------------------------------------
(* C29: one update of a user with sessions in several games *)

\* the order the claim gives: hideBody, poison, plotNovel, curse
Precedence == [hidebody |-> 1, poison |-> 2, plotnovel |-> 3, curse |-> 4]

\* the session of u in game k, if any
Session(cv, k, u) == IF u \in DOMAIN cv[k] THEN <<cv[k][u]>> ELSE <<>>

\* C29: of a user with sessions in two or more games, a plain text is handled by
\* the state callback of the game that comes first in the order hidebody, poison,
\* plotnovel, curse, whose session advances or ends, and a cancel ends the session
\* of that game; the sessions of the user in the other games stay as they were
C29_FirstSessionTakesTheUpdate ==
    [][\A u \in Users :
          Cardinality(ActiveKinds(u)) >= 2 =>
             LET first == CHOOSE k \in ActiveKinds(u) :
                             \A j \in ActiveKinds(u) : Precedence[k] <= Precedence[j]
             IN
             /\ TextStep(u) =>
                   /\ handler' = StateCallbacks[first][conv[first][u]]
                   /\ Session(conv', first, u) # Session(conv, first, u)
                   /\ \A k \in Kinds \ {first} :
                         Session(conv', k, u) = Session(conv, k, u)
             /\ CommandStep(u, "cancel") =>
                   /\ handler' = "cancel_conversation"
                   /\ Session(conv', first, u) = <<>>
                   /\ \A k \in Kinds \ {first} :
                         Session(conv', k, u) = Session(conv, k, u)]_vars

\* C29 witness: a user who entered the poison game and the curse generator has
\* cancelled: the poison session is gone and the curse session is in its state
C29_Witness ==
    \E u \in Users :
       /\ handler = "cancel_conversation"
       /\ update.user = u
       /\ steps = 3
       /\ "poison_answer" \in DOMAIN user_data[u]
       /\ ActiveKinds(u) = {"curse"}
       /\ conv["curse"][u] = CURSE_TARGET

====
